---- MODULE Spec2Model ----
\* Model of the keyctl backend (src/keyctl.go): the adapter keyctlKeyring and
\* the kernel key-management facility it drives.  Every kernel call of a
\* handler is one step of the calling process, so the intermediate states of
\* the permission relay are states of the model.
EXTENDS Integers, Sequences, FiniteSets, TLC

\* ------------------------------------------------------------------ bounds
MaxObj == 3                       \* objects the kernel can hold besides the scope keyrings
MaxOps == 4                       \* operations started in one behaviour
MaxFaults == 1                    \* kernel calls the environment makes fail in one behaviour

Procs == {1, 2}                   \* the callers; each owns at most one adapter

\* ------------------------------------------------------------- input sets
SupportedScopes == {"user", "session", "process", "thread"}
OtherScopes     == {"", "group"}
Scopes          == SupportedScopes \cup OtherScopes
ServiceNames    == {"", "svc"}    \* cfg.ServiceName
KeyNames        == {"test"}       \* item.Key / name
Payloads        == {"x", "y"}     \* item.Data
Perms           == {0, 1061093376, 1056964608} \* cfg.KeyCtlPerm: 0, 0x3f3f0000, 0x3f000000

DefaultPerm == 1057030144         \* 0x3f010000 = alswrv-----v------------

\* ------------------------------------------------------------------ errors
\* An error is [msg, cause]: msg is the text fmt.Errorf put in front (lost
\* identity), cause the kernel errno.  A bare kernel error has msg = "".
Nil            == [msg |-> "", cause |-> ""]
Errno(e)       == [msg |-> "", cause |-> e]
Wrap(m, e)     == [msg |-> m, cause |-> e]
ErrKeyNotFound == [msg |-> "ErrKeyNotFound", cause |-> ""]

\* ------------------------------------------------------------ kernel state
UserRing    == 1                  \* KEY_SPEC_USER_SESSION_KEYRING
SessionRing == 2                  \* KEY_SPEC_SESSION_KEYRING
ProcessRing == 3                  \* KEY_SPEC_PROCESS_KEYRING
ThreadRing  == 4                  \* KEY_SPEC_THREAD_KEYRING
ScopeRings  == {UserRing, SessionRing, ProcessRing, ThreadRing}
Ids         == 1 .. (4 + MaxObj)
NoObj       == [type |-> "none", name |-> "", data |-> "", perm |-> 0]

VARIABLES
  obj,      \* kernel: id -> [type, name, data, perm]; type "none" = no such key
  links,    \* kernel: keyring id -> set of ids linked in it
  kr,       \* adapter field keyring (0: the process has no adapter)
  perm,     \* adapter field perm
  cfgOf,    \* the Config the adapter was opened with
  pc,       \* position of each process inside its current handler
  cur,      \* the handler's arguments and locals, the kernel calls it made, and
            \* had: whether the container itself held the name when it started
  last,     \* the operation completed last, with a summary of the one before it
  nops,     \* operations started so far
  nfaults   \* kernel calls the environment made fail so far

vars == <<obj, links, kr, perm, cfgOf, pc, cur, last, nops, nfaults>>


\* --------------------------------------------------- kernel primitives
\* The facility as keyctl(2)/add_key(2) document it and as the calls of
\* src/keyctl.go use it.  An operator returns [err, id, obj, links].

Result(e, i, o, l) == [err |-> e, id |-> i, obj |-> o, links |-> l]

\* Keys of the given type and description linked directly in ring.
Match(o, l, ring, type, name) ==
  {c \in l[ring] : o[c].type = type /\ o[c].name = name}

\* Keyrings reachable from ring through links, ring included.
RECURSIVE Reach(_, _, _, _)
Reach(o, l, seen, fuel) ==
  LET next == seen \cup UNION {{c \in l[r] : o[c].type = "keyring"} : r \in seen}
  IN  IF next = seen \/ fuel = 0 THEN seen ELSE Reach(o, l, next, fuel - 1)

\* KEYCTL_SEARCH: a direct child wins, else any match in a nested keyring
\* (the search recurses; which of several nested matches is found depends on
\* the kernel's iteration order).  The empty set is ENOKEY.
SearchHits(o, l, ring, type, name) ==
  IF o[ring].type # "keyring" THEN {}
  ELSE IF Match(o, l, ring, type, name) # {} THEN Match(o, l, ring, type, name)
  ELSE UNION {Match(o, l, r, type, name) : r \in Reach(o, l, {ring}, MaxObj)}

\* Ids a process still holds a handle to: never handed out again.
Held == {kr[p] : p \in Procs}
        \cup UNION {{cur[p].parent, cur[p].session, cur[p].key} : p \in Procs}
        \cup UNION {{cur[p].refs[i] : i \in 1 .. Len(cur[p].refs)} : p \in Procs}

FreeIds(o) == {i \in Ids \ ScopeRings : o[i].type = "none" /\ i \notin Held}
NewId(o)   == CHOOSE i \in FreeIds(o) : \A j \in FreeIds(o) : i <= j

\* add_key(type, name, data, ring): a key type that supports update ("key",
\* the user type) overwrites the payload of the key of that name already in
\* ring; otherwise a new object with the default permissions is linked in
\* ring, displacing a link of the same type and name.
KAdd(o, l, ring, type, name, data) ==
  IF o[ring].type # "keyring" THEN Result(Errno("ENOKEY"), 0, o, l)
  ELSE IF type = "key" /\ Match(o, l, ring, type, name) # {}
  THEN LET k == CHOOSE c \in Match(o, l, ring, type, name) : TRUE
       IN  Result(Nil, k, [o EXCEPT ![k].data = data], l)
  ELSE LET k == NewId(o)
       IN  Result(Nil, k,
                  [o EXCEPT ![k] = [type |-> type, name |-> name,
                                    data |-> data, perm |-> DefaultPerm]],
                  [l EXCEPT ![ring] = (@ \ Match(o, l, ring, type, name)) \cup {k}])

\* add_key can allocate: the model holds at most MaxObj objects.
CanAdd(o, l, ring, type, name) ==
  \/ o[ring].type # "keyring"
  \/ type = "key" /\ Match(o, l, ring, type, name) # {}
  \/ FreeIds(o) # {}

\* KEYCTL_SETPERM
KSetPerm(o, l, k, p) ==
  IF o[k].type = "none" THEN Result(Errno("ENOKEY"), 0, o, l)
  ELSE Result(Nil, k, [o EXCEPT ![k].perm = p], l)

\* KEYCTL_LINK: links k in ring, displacing a link to another key of the same
\* type and name; linking what is already linked changes nothing.
KLink(o, l, ring, k) ==
  IF o[k].type = "none" \/ o[ring].type # "keyring"
  THEN Result(Errno("ENOKEY"), 0, o, l)
  ELSE Result(Nil, k, o,
              [l EXCEPT ![ring] = (@ \ Match(o, l, ring, o[k].type, o[k].name)) \cup {k}])

\* KEYCTL_UNLINK: ENOENT when k is not linked in ring.
KUnlink(o, l, ring, k) ==
  IF o[k].type = "none" \/ o[ring].type # "keyring"
  THEN Result(Errno("ENOKEY"), 0, o, l)
  ELSE IF k \notin l[ring] THEN Result(Errno("ENOENT"), 0, o, l)
  ELSE Result(Nil, k, o, [l EXCEPT ![ring] = @ \ {k}])

\* KEYCTL_READ
KRead(o, l, k) ==
  IF o[k].type = "none" THEN Result(Errno("ENOKEY"), 0, o, l)
  ELSE Result(Nil, k, o, l)

\* KEYCTL_DESCRIBE
KDescribe(o, l, k) ==
  IF o[k].type = "none" THEN Result(Errno("ENOKEY"), 0, o, l)
  ELSE Result(Nil, k, o, l)

\* KEYCTL_READ of a keyring: its links, in the kernel's order.
Orderings(S) ==
  {s \in [1 .. Cardinality(S) -> S] : \A i, j \in 1 .. Cardinality(S) : s[i] = s[j] => i = j}

\* Any kernel call can also fail for a reason of the environment (permission,
\* quota, memory): the call then changes nothing.
Faults == IF nfaults < MaxFaults THEN {"", "EACCES"} ELSE {""}
Charge(f) == nfaults' = IF f = "" THEN nfaults ELSE nfaults + 1
Try(f, r, o, l) == IF f = "" THEN r ELSE Result(Errno(f), 0, o, l)

\* ------------------------------------------------------- process state
\* What a keyring holds: the objects linked in it, with their payloads.
Content(o, l, ring) == {<<k, o[k].data>> : k \in l[ring]}

\* The destination and the session keyring as a creation with a non-zero
\* mask found them (empty for every other operation).
NoSnap == [dest |-> {}, session |-> {}]
Snapshot(o, l, dest) ==
  [dest |-> Content(o, l, dest), session |-> Content(o, l, SessionRing)]

Blank == [op |-> "", scope |-> "", service |-> "", name |-> "", data |-> "",
          parent |-> 0, session |-> 0, key |-> 0, had |-> FALSE,
          refs |-> <<>>, results |-> [nil |-> TRUE, names |-> <<>>], calls |-> <<>>,
          before |-> NoSnap]

\* What a completed operation leaves in last; prev is the summary of the
\* operation completed before it.
NoPrev == [p |-> 0, op |-> "", name |-> "", data |-> "", ok |-> FALSE]
Summary(e) == [p |-> e.p, op |-> e.op, name |-> e.name, data |-> e.data, ok |-> e.err = Nil]
NoEntry ==
  [p |-> 0, op |-> "", scope |-> "", service |-> "", name |-> "", data |-> "",
   perm |-> 0, err |-> Nil, ring |-> 0, key |-> 0, had |-> FALSE, results |-> Blank.results,
   calls |-> <<>>, before |-> NoSnap, prev |-> NoPrev]
Entry(p, c, e, ring, pm) ==
  [p |-> p, op |-> c.op, scope |-> c.scope, service |-> c.service,
   name |-> c.name, data |-> c.data, perm |-> pm,
   err |-> e, ring |-> ring, key |-> c.key, had |-> c.had, results |-> c.results, calls |-> c.calls,
   before |-> c.before, prev |-> Summary(last)]

\* The handler of p returns e (c: its locals at the return, pm: the mask of
\* the adapter it ran on).
ReturnWith(p, c, e, ring, pm) ==
  /\ last' = Entry(p, c, e, ring, pm)
  /\ pc'   = [pc EXCEPT ![p] = "idle"]
  /\ cur'  = [cur EXCEPT ![p] = Blank]

Return(p, c, e, ring) == ReturnWith(p, c, e, ring, perm[p])

\* The handler of p goes on at label with locals c.
Goto(p, c, label) ==
  /\ pc'   = [pc EXCEPT ![p] = label]
  /\ cur'  = [cur EXCEPT ![p] = c]
  /\ last' = last

Called(c, fn, e) == [c EXCEPT !.calls = Append(@, <<fn, e.cause>>)]

\* ------------------------------------------------------ scope resolver
\* GetKeyringForScope with a fault: the reserved scope group resolves too.
GetKeyringForScope_group(scope) ==
  CASE scope = "user"    -> UserRing
    [] scope = "group"   -> UserRing
    [] scope = "session" -> SessionRing
    [] scope = "process" -> ProcessRing
    [] scope = "thread"  -> ThreadRing
    [] OTHER             -> 0

\* GetKeyringForScope: the ring the scope names, 0 for a scope the switch
\* rejects without a kernel call.
GetKeyringForScope(scope) ==
  CASE scope = "user"    -> UserRing
    [] scope = "session" -> SessionRing
    [] scope = "process" -> ProcessRing
    [] scope = "thread"  -> ThreadRing
    [] OTHER             -> 0

\* ---------------------------------------------------------- the opener
\* The callers are numbered in the order they open their adapters, and a
\* later caller opens in the scope the first one chose (or fails on an
\* unsupported one): the callers share one scope keyring.
ScopesFor(p) ==
  IF \E q \in Procs : q < p /\ kr[q] # 0
  THEN {cfgOf[q].scope : q \in {r \in Procs : r < p /\ kr[r] # 0}} \cup OtherScopes
  ELSE Scopes

\* The opener of init, up to the test of cfg.ServiceName: it sets perm,
\* resolves the scope and, with no ServiceName, returns the adapter.
Open(p) ==
  /\ pc[p] = "idle" /\ kr[p] = 0 /\ nops < MaxOps
  /\ \A q \in Procs : q < p => kr[q] # 0
  /\ nops' = nops + 1
  /\ UNCHANGED <<obj, links>>
  /\ \E scope \in ScopesFor(p), service \in ServiceNames, pm \in Perms, f \in Faults : Charge(f) /\
       LET ring == GetKeyringForScope(scope)
           c0   == [Blank EXCEPT !.op = "Open", !.scope = scope, !.service = service]
           c1   == Called(c0, "GetKeyringId", Errno(f))
       IN  IF ring = 0
           THEN /\ f = ""
                /\ UNCHANGED <<kr, perm, cfgOf>>
                /\ ReturnWith(p, c0, Wrap("accessing keyring failed", "unsupported scope"), 0, pm)
           ELSE IF f # ""
           THEN /\ UNCHANGED <<kr, perm, cfgOf>>
                /\ ReturnWith(p, c1, Wrap("accessing keyring failed", f), 0, pm)
           ELSE /\ perm' = [perm EXCEPT ![p] = pm]
                /\ kr'   = [kr EXCEPT ![p] = ring]
                /\ cfgOf' = [cfgOf EXCEPT ![p] = [scope |-> scope, service |-> service]]
                /\ IF service = ""
                   THEN ReturnWith(p, c1, Nil, ring, pm)
                   ELSE Goto(p, [c1 EXCEPT !.parent = ring], "OpenKeyring")

\* The opener fails: the adapter under construction is dropped.
Drop(p, c, e) ==
  /\ kr'    = [kr EXCEPT ![p] = 0]
  /\ perm'  = [perm EXCEPT ![p] = 0]
  /\ cfgOf' = [cfgOf EXCEPT ![p] = [scope |-> "", service |-> ""]]
  /\ Return(p, c, e, 0)

\* The opener returns the adapter on the named keyring ring.
Adopt(p, c, ring) ==
  /\ kr' = [kr EXCEPT ![p] = ring]
  /\ UNCHANGED <<perm, cfgOf>>
  /\ Return(p, [c EXCEPT !.key = ring], Nil, ring)

\* OpenKeyring with a fault: every lookup failure leads to the creation.
OpenKeyring_anyerr(p) ==
  /\ pc[p] = "OpenKeyring"
  /\ UNCHANGED <<obj, links, nops>>
  /\ \E f \in Faults : Charge(f) /\
       LET hits == SearchHits(obj, links, cur[p].parent, "keyring", cur[p].service)
           e    == IF f # "" THEN Errno(f) ELSE Errno("ENOKEY")
       IN  IF f # "" \/ hits = {}
           THEN /\ UNCHANGED <<kr, perm, cfgOf>>
                /\ IF perm[p] = 0
                   THEN Goto(p, Called(cur[p], "Search", e), "createNamedKeyring")
                   ELSE Goto(p, [Called(cur[p], "Search", e)
                                   EXCEPT !.before = Snapshot(obj, links, cur[p].parent)],
                             "ck_SessionKeyring")
           ELSE \E k \in hits : Adopt(p, Called(cur[p], "Search", Nil), k)

\* keyctl.OpenKeyring(parent, cfg.ServiceName) and the branch on its error.
OpenKeyring(p) ==
  /\ pc[p] = "OpenKeyring"
  /\ UNCHANGED <<obj, links, nops>>
  /\ \E f \in Faults : Charge(f) /\
       LET hits == SearchHits(obj, links, cur[p].parent, "keyring", cur[p].service)
       IN  IF f # ""
           THEN Drop(p, Called(cur[p], "Search", Errno(f)), Wrap("opening named keyring failed", f))
           ELSE IF hits = {}
           THEN /\ UNCHANGED <<kr, perm, cfgOf>>
                /\ IF perm[p] = 0
                   THEN Goto(p, Called(cur[p], "Search", Errno("ENOKEY")), "createNamedKeyring")
                   ELSE Goto(p, [Called(cur[p], "Search", Errno("ENOKEY"))
                                   EXCEPT !.before = Snapshot(obj, links, cur[p].parent)],
                             "ck_SessionKeyring")
           ELSE \E k \in hits : Adopt(p, Called(cur[p], "Search", Nil), k)

\* createNamedKeyring with a fault: a failed creation goes back to the lookup.
createNamedKeyring_retry(p) ==
  /\ pc[p] = "createNamedKeyring"
  /\ CanAdd(obj, links, cur[p].parent, "keyring", cur[p].service)
  /\ UNCHANGED nops
  /\ \E f \in Faults : Charge(f) /\
       LET r == Try(f, KAdd(obj, links, cur[p].parent, "keyring", cur[p].service, ""), obj, links)
           c == Called(cur[p], "CreateKeyring", r.err)
       IN  /\ obj' = r.obj /\ links' = r.links
           /\ IF r.err # Nil
              THEN /\ UNCHANGED <<kr, perm, cfgOf>>
                   /\ Goto(p, c, "OpenKeyring")
              ELSE Adopt(p, c, r.id)

\* createNamedKeyring with perm = 0: keyctl.CreateKeyring(parent, name).
createNamedKeyring(p) ==
  /\ pc[p] = "createNamedKeyring"
  /\ CanAdd(obj, links, cur[p].parent, "keyring", cur[p].service)
  /\ UNCHANGED nops
  /\ \E f \in Faults : Charge(f) /\
       LET r == Try(f, KAdd(obj, links, cur[p].parent, "keyring", cur[p].service, ""), obj, links)
           c == Called(cur[p], "CreateKeyring", r.err)
       IN  /\ obj' = r.obj /\ links' = r.links
           /\ IF r.err # Nil
              THEN Drop(p, c, Wrap("creating named keyring failed", r.err.cause))
              ELSE Adopt(p, c, r.id)

\* createNamedKeyring with perm # 0, step by step.
ck_SessionKeyring(p) ==
  /\ pc[p] = "ck_SessionKeyring"
  /\ UNCHANGED <<obj, links, nops>>
  /\ \E f \in Faults : Charge(f) /\
       LET c == Called(cur[p], "GetKeyringId", Errno(f))
       IN  IF f # ""
           THEN Drop(p, c, Wrap("accessing session keyring failed", f))
           ELSE /\ UNCHANGED <<kr, perm, cfgOf>>
                /\ Goto(p, [c EXCEPT !.session = SessionRing], "ck_CreateKeyring")

ck_CreateKeyring(p) ==
  /\ pc[p] = "ck_CreateKeyring"
  /\ CanAdd(obj, links, cur[p].session, "keyring", cur[p].service)
  /\ UNCHANGED nops
  /\ \E f \in Faults : Charge(f) /\
       LET r == Try(f, KAdd(obj, links, cur[p].session, "keyring", cur[p].service, ""), obj, links)
           c == Called(cur[p], "CreateKeyring", r.err)
       IN  /\ obj' = r.obj /\ links' = r.links
           /\ IF r.err # Nil
              THEN Drop(p, c, Wrap("creating keyring failed", r.err.cause))
              ELSE /\ UNCHANGED <<kr, perm, cfgOf>>
                   /\ Goto(p, [c EXCEPT !.key = r.id], "ck_SetPerm")

ck_SetPerm(p) ==
  /\ pc[p] = "ck_SetPerm"
  /\ UNCHANGED nops
  /\ \E f \in Faults : Charge(f) /\
       LET r == Try(f, KSetPerm(obj, links, cur[p].key, perm[p]), obj, links)
           c == Called(cur[p], "SetPerm", r.err)
       IN  /\ obj' = r.obj /\ links' = r.links
           /\ IF r.err # Nil
              THEN Drop(p, c, Wrap("setting permission failed", r.err.cause))
              ELSE /\ UNCHANGED <<kr, perm, cfgOf>>
                   /\ Goto(p, c, "ck_Link")

ck_Link(p) ==
  /\ pc[p] = "ck_Link"
  /\ UNCHANGED nops
  /\ \E f \in Faults : Charge(f) /\
       LET r == Try(f, KLink(obj, links, kr[p], cur[p].key), obj, links)
           c == Called(cur[p], "Link", r.err)
       IN  /\ obj' = r.obj /\ links' = r.links
           /\ IF r.err # Nil
              THEN Drop(p, c, Wrap("linking keyring failed", r.err.cause))
              ELSE /\ UNCHANGED <<kr, perm, cfgOf>>
                   /\ Goto(p, c, "ck_Unlink")

ck_Unlink(p) ==
  /\ pc[p] = "ck_Unlink"
  /\ UNCHANGED nops
  /\ \E f \in Faults : Charge(f) /\
       LET r == Try(f, KUnlink(obj, links, cur[p].session, cur[p].key), obj, links)
           c == Called(cur[p], "Unlink", r.err)
       IN  /\ obj' = r.obj /\ links' = r.links
           /\ IF r.err # Nil
              THEN Drop(p, c, Wrap("unlinking keyring from session failed", r.err.cause))
              ELSE Adopt(p, c, cur[p].key)

\* ------------------------------------------------------ item operations
Ready(p) == pc[p] = "idle" /\ kr[p] # 0 /\ nops < MaxOps

\* Get: k.keyring.Search(name) and the branch on its error.
Get(p) ==
  /\ Ready(p)
  /\ nops' = nops + 1
  /\ UNCHANGED <<obj, links, kr, perm, cfgOf>>
  /\ \E name \in KeyNames, f \in Faults : Charge(f) /\
       LET hits == SearchHits(obj, links, kr[p], "key", name)
           c0   == [Blank EXCEPT !.op = "Get", !.name = name,
                                 !.had = Match(obj, links, kr[p], "key", name) # {}]
       IN  IF f # ""
           THEN Return(p, Called(c0, "Search", Errno(f)), Errno(f), kr[p])
           ELSE IF hits = {}
           THEN Return(p, Called(c0, "Search", Errno("ENOKEY")), ErrKeyNotFound, kr[p])
           ELSE \E k \in hits :
                  Goto(p, [Called(c0, "Search", Nil) EXCEPT !.key = k], "Get_Read")

\* Get_Read with a fault: a read failure is reported as ErrKeyNotFound.
Get_Read_notfound(p) ==
  /\ pc[p] = "Get_Read"
  /\ UNCHANGED <<obj, links, kr, perm, cfgOf, nops>>
  /\ \E f \in Faults : Charge(f) /\
       LET r == Try(f, KRead(obj, links, cur[p].key), obj, links)
           c == Called(cur[p], "Read", r.err)
       IN  IF r.err # Nil
           THEN Return(p, c, ErrKeyNotFound, kr[p])
           ELSE Return(p, [c EXCEPT !.data = obj[cur[p].key].data], Nil, kr[p])

\* Get: key.Get() and the returned Item.
Get_Read(p) ==
  /\ pc[p] = "Get_Read"
  /\ UNCHANGED <<obj, links, kr, perm, cfgOf, nops>>
  /\ \E f \in Faults : Charge(f) /\
       LET r == Try(f, KRead(obj, links, cur[p].key), obj, links)
           c == Called(cur[p], "Read", r.err)
       IN  IF r.err # Nil
           THEN Return(p, c, r.err, kr[p])
           ELSE Return(p, [c EXCEPT !.data = obj[cur[p].key].data], Nil, kr[p])

\* Set with a fault: the test of k.perm is missing, every Set relays.
Set_relays(p) ==
  /\ Ready(p)
  /\ nops' = nops + 1
  /\ UNCHANGED <<kr, perm, cfgOf>>
  /\ \E name \in KeyNames, data \in Payloads, f \in Faults : Charge(f) /\
       LET c0 == [Blank EXCEPT !.op = "Set", !.name = name, !.data = data]
       IN  /\ UNCHANGED <<obj, links>>
           /\ IF f # ""
              THEN Return(p, Called(c0, "GetKeyringId", Errno(f)),
                          Wrap("accessing session keyring failed", f), kr[p])
              ELSE Goto(p, [Called(c0, "GetKeyringId", Nil)
                              EXCEPT !.session = SessionRing,
                                     !.before = Snapshot(obj, links, kr[p])],
                        "Set_Add")

\* Set: with perm = 0 the single k.keyring.Add; otherwise keyctl.SessionKeyring().
Set(p) ==
  /\ Ready(p)
  /\ nops' = nops + 1
  /\ UNCHANGED <<kr, perm, cfgOf>>
  /\ \E name \in KeyNames, data \in Payloads, f \in Faults : Charge(f) /\
       LET c0 == [Blank EXCEPT !.op = "Set", !.name = name, !.data = data]
       IN  IF perm[p] = 0
           THEN /\ CanAdd(obj, links, kr[p], "key", name)
                /\ LET r == Try(f, KAdd(obj, links, kr[p], "key", name, data), obj, links)
                   IN  /\ obj' = r.obj /\ links' = r.links
                       /\ Return(p, [Called(c0, "Add", r.err) EXCEPT !.key = r.id], r.err, kr[p])
           ELSE /\ UNCHANGED <<obj, links>>
                /\ IF f # ""
                   THEN Return(p, Called(c0, "GetKeyringId", Errno(f)),
                               Wrap("accessing session keyring failed", f), kr[p])
                   ELSE Goto(p, [Called(c0, "GetKeyringId", Nil)
                                   EXCEPT !.session = SessionRing,
                                          !.before = Snapshot(obj, links, kr[p])],
                             "Set_Add")

\* Set: session.Add(item.Key, item.Data).
Set_Add(p) ==
  /\ pc[p] = "Set_Add"
  /\ CanAdd(obj, links, cur[p].session, "key", cur[p].name)
  /\ UNCHANGED <<kr, perm, cfgOf, nops>>
  /\ \E f \in Faults : Charge(f) /\
       LET r == Try(f, KAdd(obj, links, cur[p].session, "key", cur[p].name, cur[p].data), obj, links)
           c == Called(cur[p], "Add", r.err)
       IN  /\ obj' = r.obj /\ links' = r.links
           /\ IF r.err # Nil
              THEN Return(p, c, Wrap("adding key to session failed", r.err.cause), kr[p])
              ELSE Goto(p, [c EXCEPT !.key = r.id], "Set_SetPerm")

\* Set_SetPerm with a fault: a failure removes the key from the session
\* keyring before it is reported.
Set_SetPerm_cleanup(p) ==
  /\ pc[p] = "Set_SetPerm"
  /\ UNCHANGED <<kr, perm, cfgOf, nops>>
  /\ \E f \in Faults : Charge(f) /\
       LET r == Try(f, KSetPerm(obj, links, cur[p].key, perm[p]), obj, links)
           c == Called(cur[p], "SetPerm", r.err)
       IN  IF r.err # Nil
           THEN /\ obj' = obj
                /\ links' = [links EXCEPT ![cur[p].session] = @ \ {cur[p].key}]
                /\ Return(p, c, Wrap("setting permission failed", r.err.cause), kr[p])
           ELSE /\ obj' = r.obj /\ links' = r.links
                /\ Goto(p, c, "Set_Link")

\* Set: keyctl.SetPerm(key, k.perm).
Set_SetPerm(p) ==
  /\ pc[p] = "Set_SetPerm"
  /\ UNCHANGED <<kr, perm, cfgOf, nops>>
  /\ \E f \in Faults : Charge(f) /\
       LET r == Try(f, KSetPerm(obj, links, cur[p].key, perm[p]), obj, links)
           c == Called(cur[p], "SetPerm", r.err)
       IN  /\ obj' = r.obj /\ links' = r.links
           /\ IF r.err # Nil
              THEN Return(p, c, Wrap("setting permission failed", r.err.cause), kr[p])
              ELSE Goto(p, c, "Set_Link")

\* Set: keyctl.Link(k.keyring, key).
Set_Link(p) ==
  /\ pc[p] = "Set_Link"
  /\ UNCHANGED <<kr, perm, cfgOf, nops>>
  /\ \E f \in Faults : Charge(f) /\
       LET r == Try(f, KLink(obj, links, kr[p], cur[p].key), obj, links)
           c == Called(cur[p], "Link", r.err)
       IN  /\ obj' = r.obj /\ links' = r.links
           /\ IF r.err # Nil
              THEN Return(p, c, Wrap("linking key to keyring failed", r.err.cause), kr[p])
              ELSE Goto(p, c, "Set_Unlink")

\* Set: keyctl.Unlink(session, key).
Set_Unlink(p) ==
  /\ pc[p] = "Set_Unlink"
  /\ UNCHANGED <<kr, perm, cfgOf, nops>>
  /\ \E f \in Faults : Charge(f) /\
       LET r == Try(f, KUnlink(obj, links, cur[p].session, cur[p].key), obj, links)
           c == Called(cur[p], "Unlink", r.err)
       IN  /\ obj' = r.obj /\ links' = r.links
           /\ IF r.err # Nil
              THEN Return(p, c, Wrap("unlinking key from session failed", r.err.cause), kr[p])
              ELSE Return(p, c, Nil, kr[p])

\* Remove with a fault: only no-such-key is ErrKeyNotFound, as in Get.
Remove_surfaces(p) ==
  /\ Ready(p)
  /\ nops' = nops + 1
  /\ UNCHANGED <<obj, links, kr, perm, cfgOf>>
  /\ \E name \in KeyNames, f \in Faults : Charge(f) /\
       LET hits == SearchHits(obj, links, kr[p], "key", name)
           c0   == [Blank EXCEPT !.op = "Remove", !.name = name,
                                 !.had = Match(obj, links, kr[p], "key", name) # {}]
       IN  IF f # ""
           THEN Return(p, Called(c0, "Search", Errno(f)), Errno(f), kr[p])
           ELSE IF hits = {}
           THEN Return(p, Called(c0, "Search", Errno("ENOKEY")), ErrKeyNotFound, kr[p])
           ELSE \E k \in hits :
                  Goto(p, [Called(c0, "Search", Nil) EXCEPT !.key = k], "Remove_Unlink")

\* Remove: k.keyring.Search(name); every failure is ErrKeyNotFound.
Remove(p) ==
  /\ Ready(p)
  /\ nops' = nops + 1
  /\ UNCHANGED <<obj, links, kr, perm, cfgOf>>
  /\ \E name \in KeyNames, f \in Faults : Charge(f) /\
       LET hits == SearchHits(obj, links, kr[p], "key", name)
           c0   == [Blank EXCEPT !.op = "Remove", !.name = name,
                                 !.had = Match(obj, links, kr[p], "key", name) # {}]
       IN  IF f # ""
           THEN Return(p, Called(c0, "Search", Errno(f)), ErrKeyNotFound, kr[p])
           ELSE IF hits = {}
           THEN Return(p, Called(c0, "Search", Errno("ENOKEY")), ErrKeyNotFound, kr[p])
           ELSE \E k \in hits :
                  Goto(p, [Called(c0, "Search", Nil) EXCEPT !.key = k], "Remove_Unlink")

\* Remove: key.Unlink(), from the keyring that was searched.
Remove_Unlink(p) ==
  /\ pc[p] = "Remove_Unlink"
  /\ UNCHANGED <<kr, perm, cfgOf, nops>>
  /\ \E f \in Faults : Charge(f) /\
       LET r == Try(f, KUnlink(obj, links, kr[p], cur[p].key), obj, links)
       IN  /\ obj' = r.obj /\ links' = r.links
           /\ Return(p, Called(cur[p], "Unlink", r.err), r.err, kr[p])

\* Keys: results := []string{} and keyctl.ListKeyring(k.keyring).
Keys(p) ==
  /\ Ready(p)
  /\ nops' = nops + 1
  /\ UNCHANGED <<obj, links, kr, perm, cfgOf>>
  /\ \E f \in Faults : Charge(f) /\
       LET c0 == [Blank EXCEPT !.op = "Keys", !.results = [nil |-> FALSE, names |-> <<>>]]
           e  == IF f # "" THEN Errno(f)
                 ELSE IF obj[kr[p]].type # "keyring" THEN Errno("ENOKEY") ELSE Nil
           c1 == Called(c0, "ListKeyring", e)
       IN  IF e # Nil
           THEN Return(p, [c1 EXCEPT !.results = Blank.results], e, kr[p])
           ELSE \E refs \in Orderings(links[kr[p]]) :
                  IF refs = <<>>
                  THEN Return(p, c1, Nil, kr[p])
                  ELSE Goto(p, [c1 EXCEPT !.refs = refs], "Keys_Info")

\* Keys: one turn of the loop, ref.Info() and the test of info.Type.
Keys_Info(p) ==
  /\ pc[p] = "Keys_Info"
  /\ UNCHANGED <<obj, links, kr, perm, cfgOf, nops>>
  /\ \E f \in Faults : Charge(f) /\
       LET ref  == Head(cur[p].refs)
           r    == Try(f, KDescribe(obj, links, ref), obj, links)
           c    == Called(cur[p], "Describe", r.err)
           res  == IF obj[ref].type = "key"
                   THEN [c.results EXCEPT !.names = Append(@, obj[ref].name)]
                   ELSE c.results
           c2   == [c EXCEPT !.refs = Tail(@), !.results = res]
       IN  IF r.err # Nil
           THEN Return(p, [c EXCEPT !.results = Blank.results], r.err, kr[p])
           ELSE IF c2.refs = <<>>
           THEN Return(p, c2, Nil, kr[p])
           ELSE Goto(p, c2, "Keys_Info")

\* ----------------------------------------------------------- the kernel
\* Objects no keyring links any more are destroyed, some time after the
\* unlink; the links a destroyed keyring held go with it.
Linked(l, k) == \E r \in Ids : k \in l[r]
Garbage == {k \in Ids \ ScopeRings : obj[k].type # "none" /\ ~Linked(links, k)}

KernelGC ==
  /\ Garbage # {}
  /\ obj'   = [k \in Ids |-> IF k \in Garbage THEN NoObj ELSE obj[k]]
  /\ links' = [k \in Ids |-> IF k \in Garbage THEN {} ELSE links[k]]
  /\ UNCHANGED <<kr, perm, cfgOf, pc, cur, last, nops, nfaults>>

\* ------------------------------------------------------- specification
Init ==
  /\ obj   = [k \in Ids |-> IF k \in ScopeRings
                             THEN [type |-> "keyring", name |-> "_scope", data |-> "",
                                   perm |-> DefaultPerm]
                             ELSE NoObj]
  /\ links = [k \in Ids |-> {}]
  /\ kr    = [p \in Procs |-> 0]
  /\ perm  = [p \in Procs |-> 0]
  /\ cfgOf = [p \in Procs |-> [scope |-> "", service |-> ""]]
  /\ pc    = [p \in Procs |-> "idle"]
  /\ cur   = [p \in Procs |-> Blank]
  /\ last  = NoEntry
  /\ nops  = 0
  /\ nfaults = 0

\* One caller at a time: a handler runs to its return before another starts.
Sequential(p) == \A q \in Procs \ {p} : pc[q] = "idle"

Next ==
  \/ \E p \in Procs : Sequential(p) /\ Open(p)
  \/ \E p \in Procs : Sequential(p) /\ OpenKeyring(p)
  \/ \E p \in Procs : Sequential(p) /\ createNamedKeyring(p)
  \/ \E p \in Procs : Sequential(p) /\ ck_SessionKeyring(p)
  \/ \E p \in Procs : Sequential(p) /\ ck_CreateKeyring(p)
  \/ \E p \in Procs : Sequential(p) /\ ck_SetPerm(p)
  \/ \E p \in Procs : Sequential(p) /\ ck_Link(p)
  \/ \E p \in Procs : Sequential(p) /\ ck_Unlink(p)
  \/ \E p \in Procs : Sequential(p) /\ Get(p)
  \/ \E p \in Procs : Sequential(p) /\ Get_Read(p)
  \/ \E p \in Procs : Sequential(p) /\ Set(p)
  \/ \E p \in Procs : Sequential(p) /\ Set_Add(p)
  \/ \E p \in Procs : Sequential(p) /\ Set_SetPerm(p)
  \/ \E p \in Procs : Sequential(p) /\ Set_Link(p)
  \/ \E p \in Procs : Sequential(p) /\ Set_Unlink(p)
  \/ \E p \in Procs : Sequential(p) /\ Remove(p)
  \/ \E p \in Procs : Sequential(p) /\ Remove_Unlink(p)
  \/ \E p \in Procs : Sequential(p) /\ Keys(p)
  \/ \E p \in Procs : Sequential(p) /\ Keys_Info(p)
  \/ KernelGC

Spec == Init /\ [][Next]_vars

\* A single caller: one adapter, its handlers called one after the other.
Solo == 1

NextSolo ==
  \/ Open(Solo)
  \/ OpenKeyring(Solo)
  \/ createNamedKeyring(Solo)
  \/ ck_SessionKeyring(Solo)
  \/ ck_CreateKeyring(Solo)
  \/ ck_SetPerm(Solo)
  \/ ck_Link(Solo)
  \/ ck_Unlink(Solo)
  \/ Get(Solo)
  \/ Get_Read(Solo)
  \/ Set(Solo)
  \/ Set_Add(Solo)
  \/ Set_SetPerm(Solo)
  \/ Set_Link(Solo)
  \/ Set_Unlink(Solo)
  \/ Remove(Solo)
  \/ Remove_Unlink(Solo)
  \/ Keys(Solo)
  \/ Keys_Info(Solo)
  \/ KernelGC

SpecSolo == Init /\ [][NextSolo]_vars

\* Two callers constructing an adapter on a named keyring at once, one
\* construction each: the kernel calls of the two constructions interleave
\* in every order (the adapter takes no lock).
NextOpenRace ==
  \/ \E p \in Procs : Open(p) /\ pc'[p] = "OpenKeyring" /\ nops < Cardinality(Procs)
  \/ \E p \in Procs : OpenKeyring(p)
  \/ \E p \in Procs : createNamedKeyring(p)
  \/ \E p \in Procs : ck_SessionKeyring(p)
  \/ \E p \in Procs : ck_CreateKeyring(p)
  \/ \E p \in Procs : ck_SetPerm(p)
  \/ \E p \in Procs : ck_Link(p)
  \/ \E p \in Procs : ck_Unlink(p)
  \/ KernelGC

\* The kernel calls of a construction that has started: each returns, so a
\* caller inside its construction takes its next step.
Construct(p) ==
  \/ OpenKeyring(p)
  \/ createNamedKeyring(p)
  \/ ck_SessionKeyring(p)
  \/ ck_CreateKeyring(p)
  \/ ck_SetPerm(p)
  \/ ck_Link(p)
  \/ ck_Unlink(p)

SpecOpenRace ==
  Init /\ [][NextOpenRace]_vars /\ \A p \in Procs : WF_vars(Construct(p))

\* Two callers running Set at once: each adapter is constructed while the
\* other caller is idle, and the kernel calls of their Sets interleave in
\* every order.
NextSetRace ==
  \/ \E p \in Procs : Sequential(p) /\ Open(p)
  \/ \E p \in Procs : Sequential(p) /\ OpenKeyring(p)
  \/ \E p \in Procs : Sequential(p) /\ createNamedKeyring(p)
  \/ \E p \in Procs : Sequential(p) /\ ck_SessionKeyring(p)
  \/ \E p \in Procs : Sequential(p) /\ ck_CreateKeyring(p)
  \/ \E p \in Procs : Sequential(p) /\ ck_SetPerm(p)
  \/ \E p \in Procs : Sequential(p) /\ ck_Link(p)
  \/ \E p \in Procs : Sequential(p) /\ ck_Unlink(p)
  \/ \E p \in Procs : Set(p)
  \/ \E p \in Procs : Set_Add(p)
  \/ \E p \in Procs : Set_SetPerm(p)
  \/ \E p \in Procs : Set_Link(p)
  \/ \E p \in Procs : Set_Unlink(p)
  \/ KernelGC

SpecSetRace == Init /\ [][NextSetRace]_vars

\* ----------------------------------------------------- shared notions
Idle == \A p \in Procs : pc[p] = "idle"

\* The environment made one of the kernel calls of the operation fail.
Injected(calls) == \E i \in 1 .. Len(calls) : calls[i][2] = "EACCES"

Range(s) == {s[i] : i \in 1 .. Len(s)}

\* Names of the leaf keys linked directly in ring.
DirectKeyNames(ring) == {obj[k].name : k \in {c \in links[ring] : obj[c].type = "key"}}

\* The operation completed last was handler op of the adapter of p.
Returned(op) == last.op = op /\ last.p \in Procs

\* ---------------------------------------------------------------- C1
\* C1: a Set(item) that returns success, followed immediately by
\* Get(item.Key) on the same adapter (the kernel failing no call of the Get),
\* returns without error an Item with the Key and the Data that were set.
C1_SetThenGet ==
  (/\ Returned("Get") /\ ~Injected(last.calls)
   /\ last.prev.op = "Set" /\ last.prev.ok
   /\ last.prev.p = last.p /\ last.prev.name = last.name)
  => (last.err = Nil /\ last.data = last.prev.data)

\* ---------------------------------------------------------------- C2
\* C2: with a non-zero mask, when Set(item) has returned success the key it
\* created is linked in the adapter's container, is not linked in the session
\* keyring and carries the configured mask, whatever the container is.
C2_SetRelayPlacement ==
  (Idle /\ Returned("Set") /\ last.perm # 0 /\ last.err = Nil)
  => (/\ last.key \in links[last.ring]
      /\ last.key \notin links[SessionRing]
      /\ obj[last.key].perm = last.perm)

\* ---------------------------------------------------------------- C3
\* C3: when the adapter's container holds no item named n, Get(n) and
\* Remove(n) return ErrKeyNotFound (the kernel failing no call).
C3_AbsentIsNotFound ==
  (/\ last.p \in Procs /\ last.op \in {"Get", "Remove"}
   /\ ~last.had /\ ~Injected(last.calls))
  => last.err = ErrKeyNotFound

\* ---------------------------------------------------------------- C4
\* C4: Keys() returns, as a non-nil sequence and with no error, exactly the
\* names of the leaf keys linked directly in the container, each once, no
\* sub-keyring among them; an item just Set with success is among them.
C4_KeysExact ==
  (Idle /\ Returned("Keys") /\ last.err = Nil /\ obj[last.ring].type = "keyring")
  => (/\ ~last.results.nil
      /\ Range(last.results.names) = DirectKeyNames(last.ring)
      /\ Len(last.results.names) = Cardinality(DirectKeyNames(last.ring))
      /\ (last.prev.op = "Set" /\ last.prev.ok /\ last.prev.p = last.p
            => last.prev.name \in Range(last.results.names)))

\* ---------------------------------------------------------------- C5
\* C5: two adapters constructed one after the other with the same scope and
\* the same non-empty container name hold handles to the same container.
C5_SameNamedContainer ==
  (/\ Idle /\ Returned("Open") /\ last.err = Nil /\ last.service # ""
   /\ last.prev.op = "Open" /\ last.prev.ok /\ last.prev.p \in Procs \ {last.p}
   /\ cfgOf[last.prev.p] = cfgOf[last.p])
  => kr[last.prev.p] = kr[last.p]

\* ---------------------------------------------------------------- C6
\* C6: construction succeeds for user, session, process and thread when the
\* kernel fails none of its calls; for every other scope it fails, and no
\* kernel primitive has been invoked when it does.
C6_ScopeResolution ==
  Returned("Open") =>
    IF last.scope \in SupportedScopes
    THEN ~Injected(last.calls) => (last.err = Nil /\ last.ring # 0 /\ kr[last.p] # 0)
    ELSE last.err # Nil /\ last.calls = <<>> /\ last.ring = 0

\* The reserved scope group has been refused.
C6_Witness ==
  Returned("Open") /\ last.scope = "group" /\ last.err # Nil /\ last.calls = <<>>

\* ---------------------------------------------------------------- C7
\* A step in which p started an operation and returned from it at once.
ReturnsAtOnce(p, op) ==
  /\ pc[p] = "idle" /\ nops' = nops + 1 /\ \A q \in Procs : pc'[q] = "idle"
  /\ last'.p = p /\ last'.op = op

\* C7: Remove(name) returns ErrKeyNotFound whenever the search fails, for any
\* reason, and then attempts no unlink and changes no keyring; only after a
\* successful search is the found key unlinked, from the container.
C7_RemoveStep(p) ==
  /\ ReturnsAtOnce(p, "Remove")
       => /\ last'.err = ErrKeyNotFound
          /\ Len(last'.calls) = 1 /\ last'.calls[1][1] = "Search" /\ last'.calls[1][2] # ""
          /\ obj' = obj /\ links' = links
  /\ (pc[p] = "idle" /\ pc'[p] = "Remove_Unlink")
       => /\ cur'[p].calls = << <<"Search", "">> >>
          /\ cur'[p].key \in SearchHits(obj, links, kr[p], "key", cur'[p].name)
          /\ obj' = obj /\ links' = links
  /\ (pc[p] = "Remove_Unlink" /\ pc'[p] = "idle")
       => /\ obj' = obj
          /\ Len(last'.calls) = 2 /\ last'.calls[2][1] = "Unlink"
          /\ IF last'.err = Nil
             THEN /\ cur[p].key \in links[kr[p]]
                  /\ links' = [links EXCEPT ![kr[p]] = @ \ {cur[p].key}]
             ELSE links' = links

\* C7, over every step of every behaviour.
C7_RemoveCollapsesSearchErrors == [][\A p \in Procs : C7_RemoveStep(p)]_vars

\* Remove of a name the container holds, the search failing with EACCES.
C7_Witness ==
  /\ Returned("Remove") /\ last.had
  /\ last.calls = << <<"Search", "EACCES">> >> /\ last.err = ErrKeyNotFound

\* ---------------------------------------------------------------- C8
\* C8: Get(name) returns ErrKeyNotFound exactly when the search fails with
\* no-such-key; any other search failure and any read failure is returned
\* as that error value itself; Get changes no keyring.
C8_GetStep(p) ==
  /\ ReturnsAtOnce(p, "Get")
       => /\ Len(last'.calls) = 1 /\ last'.calls[1][1] = "Search" /\ last'.calls[1][2] # ""
          /\ last'.err = IF last'.calls[1][2] = "ENOKEY" THEN ErrKeyNotFound
                         ELSE Errno(last'.calls[1][2])
          /\ obj' = obj /\ links' = links
  /\ (pc[p] = "idle" /\ pc'[p] = "Get_Read")
       => /\ cur'[p].calls = << <<"Search", "">> >>
          /\ obj' = obj /\ links' = links
  /\ (pc[p] = "Get_Read" /\ pc'[p] = "idle")
       => /\ obj' = obj /\ links' = links
          /\ Len(last'.calls) = 2 /\ last'.calls[2][1] = "Read"
          /\ last'.err # ErrKeyNotFound
          /\ last'.err = Errno(last'.calls[2][2])
          /\ last'.err = Nil => (last'.name = cur[p].name /\ last'.data = obj[cur[p].key].data)

\* C8, over every step of every behaviour.
C8_GetErrorMapping == [][\A p \in Procs : C8_GetStep(p)]_vars

\* Get whose search succeeded and whose read failed.
C8_Witness ==
  /\ Returned("Get")
  /\ last.calls = << <<"Search", "">>, <<"Read", "EACCES">> >>
  /\ last.err = Errno("EACCES")

\* ---------------------------------------------------------------- C9
\* Positions of the relay at which the object has been created.
RelayPcs == {"Set_SetPerm", "Set_Link", "Set_Unlink", "ck_SetPerm", "ck_Link", "ck_Unlink"}

\* The operation completed last ran the relay and created an object.
RelayReturned ==
  /\ Idle /\ last.p \in Procs /\ last.op \in {"Set", "Open"} /\ last.perm # 0
  /\ \E i \in 1 .. Len(last.calls) : last.calls[i] \in {<<"Add", "">>, <<"CreateKeyring", "">>}

\* The destination of that operation.
RelayDest == IF last.op = "Set" THEN last.ring ELSE GetKeyringForScope(last.scope)

\* C9: during and after a creation with a non-zero mask, whichever step
\* fails, the object the relay created is linked in the session keyring or
\* in the destination, for every destination.
C9_RelayNeverLoses ==
  /\ \A p \in Procs :
       pc[p] \in RelayPcs => cur[p].key \in links[SessionRing] \cup links[kr[p]]
  /\ RelayReturned => last.key \in links[SessionRing] \cup links[RelayDest]

\* --------------------------------------------------------------- C10
\* C10: with a non-zero mask and a destination other than the session
\* keyring, in every state of the relay and at its return an object of the
\* relay that is linked in the destination carries the configured mask.
C10_PermBeforeExposure ==
  /\ \A p \in Procs :
       (pc[p] \in RelayPcs /\ kr[p] # SessionRing /\ cur[p].key \in links[kr[p]])
         => obj[cur[p].key].perm = perm[p]
  /\ (RelayReturned /\ RelayDest # SessionRing /\ last.key \in links[RelayDest])
         => obj[last.key].perm = last.perm

\* --------------------------------------------------------------- C11
\* Positions in the call log of an operation at which fn was called.
CallsTo(calls, fn) == {i \in 1 .. Len(calls) : calls[i][1] = fn}

\* C11: a construction whose scope resolved, with an empty container name,
\* returns the adapter on the scope keyring after that one call; with a
\* name it looks the name up once under the parent: on success it adopts
\* the found keyring and creates nothing, on no-such-key it enters
\* createNamedKeyring once (one create call at most, and one whenever it
\* succeeds), on any other error it fails with no creation.
C11_NamedResolution ==
  (Returned("Open") /\ Len(last.calls) >= 1 /\ last.calls[1] = <<"GetKeyringId", "">>)
  => (IF last.service = ""
      THEN /\ last.err = Nil /\ Len(last.calls) = 1
           /\ last.ring = GetKeyringForScope(last.scope) /\ kr[last.p] = last.ring
      ELSE /\ Len(last.calls) >= 2 /\ CallsTo(last.calls, "Search") = {2}
           /\ IF last.calls[2][2] = ""
              THEN /\ last.err = Nil /\ Len(last.calls) = 2
                   /\ last.ring \notin ScopeRings /\ kr[last.p] = last.ring
              ELSE IF last.calls[2][2] = "ENOKEY"
              THEN /\ Len(last.calls) >= 3
                   /\ last.calls[3][1] = IF last.perm = 0 THEN "CreateKeyring"
                                                          ELSE "GetKeyringId"
                   /\ Cardinality(CallsTo(last.calls, "CreateKeyring")) <= 1
                   /\ last.err = Nil => CallsTo(last.calls, "CreateKeyring") # {}
              ELSE /\ last.err # Nil /\ Len(last.calls) = 2
                   /\ last.ring = 0)

\* A lookup that failed with an error other than no-such-key.
C11_Witness ==
  /\ Returned("Open") /\ last.service # ""
  /\ last.calls = << <<"GetKeyringId", "">>, <<"Search", "EACCES">> >>
  /\ last.err # Nil

\* --------------------------------------------------------------- C12
\* The operation completed last ran the relay, created its object, and
\* returned when its call of fn failed, having made no call after it.
RelayFailedAt(fn) ==
  /\ RelayReturned
  /\ last.calls[Len(last.calls)][1] = fn /\ last.calls[Len(last.calls)][2] # ""

\* C12: when the set-permission step of the relay fails the operation
\* returns an error having attempted neither link nor unlink, the destination
\* holds what it held before the operation, and the created object is linked
\* in the session keyring.
C12_SetPermFailure ==
  RelayFailedAt("SetPerm")
  => /\ last.err # Nil
     /\ CallsTo(last.calls, "Link") = {} /\ CallsTo(last.calls, "Unlink") = {}
     /\ Content(obj, links, RelayDest) = last.before.dest
     /\ last.key \in links[SessionRing]

\* --------------------------------------------------------------- C13
\* C13: when the link step of the relay fails the operation returns an error
\* having attempted no unlink, the object is linked in the session keyring
\* with the configured mask, and the destination holds what it held before
\* the operation.
C13_LinkFailure ==
  RelayFailedAt("Link")
  => /\ last.err # Nil
     /\ CallsTo(last.calls, "Unlink") = {}
     /\ last.key \in links[SessionRing]
     /\ obj[last.key].perm = last.perm
     /\ Content(obj, links, RelayDest) = last.before.dest

\* --------------------------------------------------------------- C14
\* The step in which the relay of p returns because its unlink failed.
UnlinkFails(p) ==
  /\ pc[p] \in {"Set_Unlink", "ck_Unlink"} /\ pc'[p] = "idle"
  /\ last'.calls[Len(last'.calls)][1] = "Unlink"
  /\ last'.calls[Len(last'.calls)][2] # ""

\* C14: when the unlink step of the relay fails, after the link, the
\* operation returns an error and, as it returns, the object is linked in
\* the destination and in the session keyring, with the configured mask:
\* the link at the destination is not taken back.
C14_UnlinkFailure ==
  [][\A p \in Procs :
       UnlinkFails(p)
       => /\ last'.err # Nil
          /\ <<"Link", "">> \in Range(cur[p].calls)
          /\ links' = links
          /\ cur[p].key \in links'[kr[p]]
          /\ cur[p].key \in links'[SessionRing]
          /\ obj'[cur[p].key].perm = perm[p]]_vars

\* --------------------------------------------------------------- C15
\* C15: when a creation with a non-zero mask returns an error, the object
\* it created is linked in no keyring other than the destination.
C15_NoOrphanOnFailure ==
  (RelayReturned /\ last.err # Nil)
  => \A r \in Ids \ {RelayDest} : last.key \notin links[r]

\* C15 as amended: when a creation with a non-zero mask returns an error
\* after it created its object, the object is left where the failing step
\* found it: it exists and is still linked in the session keyring.
C15_LeftInSession ==
  (RelayReturned /\ last.err # Nil)
  => (obj[last.key].type # "none" /\ last.key \in links[SessionRing])

\* A Set whose set-permission step failed, its key left in the session keyring.
C15_Witness ==
  /\ RelayReturned /\ last.op = "Set" /\ last.err # Nil
  /\ last.calls[Len(last.calls)] = <<"SetPerm", "EACCES">>
  /\ RelayDest # SessionRing /\ last.key \in links[SessionRing]

\* --------------------------------------------------------------- C16
\* The step leaves the links of every keyring but ring as they were (those
\* of the session keyring too, unless it is ring).
OnlyLinksOf(ring) == \A r \in Ids \ {ring} : links'[r] = links[r]

\* C16: with mask 0, Set is the one call Add on the container and the
\* creation of a named keyring the one call CreateKeyring under the parent;
\* neither enters the relay, makes a set-permission, link or unlink call or
\* a call on the session keyring, or changes the links of a keyring other
\* than its destination.
C16_Step(p) ==
  /\ (pc[p] = "idle" /\ perm[p] = 0 /\ kr[p] # 0 /\ pc'[p] # "idle")
       => cur'[p].op # "Set"
  /\ (ReturnsAtOnce(p, "Set") /\ perm[p] = 0)
       => /\ Len(last'.calls) = 1 /\ last'.calls[1][1] = "Add"
          /\ OnlyLinksOf(kr[p])
  /\ (pc[p] = "OpenKeyring" /\ perm[p] = 0 /\ pc'[p] \notin {"OpenKeyring", "idle"})
       => pc'[p] = "createNamedKeyring"
  /\ (pc[p] = "createNamedKeyring" /\ pc'[p] # "createNamedKeyring")
       => /\ perm[p] = 0 /\ pc'[p] = "idle"
          /\ Len(last'.calls) = 3 /\ last'.calls[3][1] = "CreateKeyring"
          /\ OnlyLinksOf(cur[p].parent)

\* C16, over every step of every behaviour.
C16_ZeroMaskBypass == [][\A p \in Procs : C16_Step(p)]_vars

\* A Set with mask 0 into a container other than the session keyring.
C16_Witness ==
  /\ Returned("Set") /\ last.perm = 0 /\ last.err = Nil
  /\ last.calls = << <<"Add", "">> >>
  /\ last.ring # SessionRing /\ last.key \in links[last.ring]

\* --------------------------------------------------------------- C17
\* How far a construction has come: every label of the opener in the order
\* of the code, its return last.
Rank(label) ==
  CASE label = "OpenKeyring"        -> 1
    [] label = "createNamedKeyring" -> 2
    [] label = "ck_SessionKeyring"  -> 2
    [] label = "ck_CreateKeyring"   -> 3
    [] label = "ck_SetPerm"         -> 4
    [] label = "ck_Link"            -> 5
    [] label = "ck_Unlink"          -> 6
    [] OTHER                        -> 7

Constructing(p) == Rank(pc[p]) < 7

\* A step of the construction of p: it moves forward in the code, never back
\* to the lookup or the creation; when it returns, the caller has a handle
\* and no error or an error and no handle, an error whenever the creation
\* call failed, and the construction made one lookup and at most one
\* creation call.
C17_Step(p) ==
  (Constructing(p) /\ pc'[p] # pc[p])
  => /\ Rank(pc'[p]) > Rank(pc[p])
     /\ pc'[p] = "idle"
          => /\ last'.p = p /\ last'.op = "Open"
             /\ \/ last'.err = Nil /\ kr'[p] # 0 /\ kr'[p] = last'.ring
                \/ last'.err # Nil /\ kr'[p] = 0
             /\ (\E i \in CallsTo(last'.calls, "CreateKeyring") : last'.calls[i][2] # "")
                  => last'.err # Nil
             /\ Cardinality(CallsTo(last'.calls, "Search")) = 1
             /\ Cardinality(CallsTo(last'.calls, "CreateKeyring")) <= 1

\* C17: when two callers construct adapters for the same scope and the same
\* absent container name at once, in every interleaving each construction
\* returns, with a handle or with an error; a caller whose creation fails
\* after its lookup reported no-such-key returns an error; and no caller
\* repeats the lookup or the creation.
C17_OpenOrCreateRace ==
  /\ [][\A p \in Procs : C17_Step(p)]_vars
  /\ \A p \in Procs : Constructing(p) ~> pc[p] = "idle"

\* The race lost: the lookup of the caller reported no-such-key, the other
\* caller created the container and returned, and the creation then failed.
C17_Witness ==
  /\ Returned("Open") /\ last.err # Nil
  /\ last.calls = << <<"GetKeyringId", "">>, <<"Search", "ENOKEY">>,
                     <<"CreateKeyring", "EACCES">> >>
  /\ last.prev.op = "Open" /\ last.prev.ok /\ last.prev.p \in Procs \ {last.p}
  /\ pc[last.prev.p] = "idle"
  /\ kr[last.prev.p] \in links[GetKeyringForScope(last.scope)]

\* --------------------------------------------------------------- C18
\* C18: a container holds at most one item of a name; Keys() returns no
\* name twice; a Set that succeeded leaves in the container one item of
\* that name, holding its payload, also when the name existed before; and
\* the Get that follows it on the adapter returns that payload.
C18_NameUniqueness ==
  /\ \A p \in Procs : \A n \in KeyNames :
       kr[p] # 0 => Cardinality(Match(obj, links, kr[p], "key", n)) <= 1
  /\ (Returned("Keys") /\ last.err = Nil)
       => \A i, j \in 1 .. Len(last.results.names) :
            last.results.names[i] = last.results.names[j] => i = j
  /\ (Idle /\ Returned("Set") /\ last.err = Nil)
       => \E k \in Match(obj, links, last.ring, "key", last.name) :
            obj[k].data = last.data
  /\ (/\ Returned("Get") /\ ~Injected(last.calls)
      /\ last.prev.op = "Set" /\ last.prev.ok
      /\ last.prev.p = last.p /\ last.prev.name = last.name)
       => last.data = last.prev.data

\* --------------------------------------------------------------- C19
\* C19: with a non-zero mask and a destination other than the session
\* keyring, a Set that returns success leaves the session keyring holding
\* the objects and payloads it held before the call (here: in behaviours
\* in which the kernel failed no call).
C19_SessionOnlyTransit ==
  (/\ Idle /\ Returned("Set") /\ last.err = Nil
   /\ last.perm # 0 /\ last.ring # SessionRing /\ nfaults = 0)
  => Content(obj, links, SessionRing) = last.before.session

\* --------------------------------------------------------------- C20
\* The step in which the Set of p returns success from the relay.
RelaySetReturns(p) ==
  pc[p] = "Set_Unlink" /\ pc'[p] = "idle" /\ last'.err = Nil

\* C20: two adapters with non-zero masks and different destinations, neither
\* of them the session keyring: a Set that returns success leaves in its
\* destination an item of its name holding its own payload, however the
\* calls of the two callers interleave.
C20_RelayIsolation ==
  [][\A p \in Procs :
       (/\ RelaySetReturns(p)
        /\ \A q \in Procs : kr[q] \notin {0, SessionRing} /\ perm[q] # 0
        /\ \A q \in Procs \ {p} : kr[q] # kr[p]
        /\ obj[kr[p]].type = "keyring")
       => \E k \in Match(obj', links', kr[p], "key", cur[p].name) :
            obj'[k].data = cur[p].data]_vars

====
